---- MODULE Spec2Model ----
(***************************************************************************)
(* Model of the central limit order book of clob_main.py: the Order and    *)
(* IcebergOrder volume accounting, the two heaps of resting orders, and    *)
(* the matching loop CLOB.check_matches run after every line read by       *)
(* CLOB.start_trades.                                                      *)
(*                                                                         *)
(* Prices are Decimals in the source; only their order and equality        *)
(* matter, so they are small positive integers here.  time.time() is a     *)
(* clock whose successive samples strictly increase; `clock` holds the     *)
(* last sample.  Order ids are unique across a run: the id of an order is  *)
(* the number of the input line that carried it.  A heapq list is kept as  *)
(* the sequence of its tuples in pop order, so that element 1 is heap[0].  *)
(***************************************************************************)
EXTENDS Integers, Sequences, FiniteSets, TLC

\* Number of input lines read by start_trades in one run.
MaxOrders == 3
\* Prices range over 1..MaxPrice.
MaxPrice == 2
\* The volumes of the input lines of one run are positive and sum to at
\* most MaxTotalVolume.
MaxTotalVolume == 5
\* Peaks (visible_quantity) of submitted icebergs range over 1..MaxPeak,
\* whatever the volume.
MaxPeak == 2
\* Number of input lines of one run that carry a peak.
MaxIcebergs == 1

VARIABLES
    orders_book,   \* CLOB.orders_book: side -> id -> order record
    buy_orders,    \* CLOB.buy_orders: heap of <<-price, timestamp, id>>
    sell_orders,   \* CLOB.sell_orders: heap of <<price, timestamp, id>>
    clock,         \* last sample of time.time() - epoch
    pc,            \* "idle": between input lines; "matching": inside check_matches
    match_log,     \* check_matches' local dict, in insertion order
    printed,       \* the trade lines printed so far, one batch per check_matches
    submitted,     \* the input lines read so far
    slices,        \* the crosses of the current (or last) matching pass, in order
    restarted,     \* ids of the orders pushed again by the last loop iteration
    last_cross     \* the method calls of the last loop iteration of the pass:
                   \* <<>> before the first one, else <<the calls>>

vars == <<orders_book, buy_orders, sell_orders, clock, pc, match_log,
          printed, submitted, slices, restarted, last_cross>>

Min(a, b) == IF a <= b THEN a ELSE b

RECURSIVE SumSeq(_)
SumSeq(s) == IF s = <<>> THEN 0 ELSE Head(s) + SumSeq(Tail(s))

(***************************************************************************)
(* Order and IcebergOrder                                                  *)
(***************************************************************************)

\* Order.__init__
Order(id, price, volume, type, timestamp) ==
    [cls |-> "Order", id |-> id, price |-> price, volume |-> volume,
     type |-> type, timestamp |-> timestamp,
     visible_quantity |-> 0, visible_volume |-> 0]

\* IcebergOrder.__init__
IcebergOrder(id, price, volume, type, timestamp, visible_quantity) ==
    [cls |-> "IcebergOrder", id |-> id, price |-> price, volume |-> volume,
     type |-> type, timestamp |-> timestamp,
     visible_quantity |-> visible_quantity,
     visible_volume |-> visible_quantity]

\* Order.trade without the cap by the volume
Order_tradeUncapped(o, amount) ==
    [order  |-> [o EXCEPT !.volume = o.volume - amount],
     result |-> amount]

\* Order.trade: the order after the call, and the value returned.
Order_trade(o, amount) ==
    LET possible_amount == Min(o.volume, amount)
    IN  [order  |-> [o EXCEPT !.volume = o.volume - possible_amount],
         result |-> possible_amount]

\* IcebergOrder.trade
IcebergOrder_trade(o, amount, matching_order_timestamp) ==
    LET is_aggressive == o.timestamp > matching_order_timestamp
        possible_amount == IF is_aggressive
                           THEN Min(o.volume, amount)
                           ELSE Min(o.visible_volume, amount)
        visible1 == IF is_aggressive
                    THEN o.visible_volume
                    ELSE o.visible_volume - possible_amount
        volume1 == o.volume - possible_amount
    IN  [order  |-> [o EXCEPT !.volume = volume1,
                              !.visible_volume = Min(volume1, visible1)],
         result |-> possible_amount]

\* Dynamic dispatch of order.trade(amount, matching_order_timestamp=...)
trade(o, amount, matching_order_timestamp) ==
    IF o.cls = "IcebergOrder"
    THEN IcebergOrder_trade(o, amount, matching_order_timestamp)
    ELSE Order_trade(o, amount)

\* Order.is_complete / IcebergOrder.is_complete
is_complete(o) ==
    IF o.cls = "IcebergOrder" THEN o.visible_volume = 0 ELSE o.volume = 0

\* should_restart that refills the slice to the peak, whatever the volume
should_restartNoClamp(o) ==
    IF o.cls = "IcebergOrder" /\ o.visible_volume = 0 /\ o.volume > 0
    THEN [order  |-> [o EXCEPT !.visible_volume = o.visible_quantity],
          result |-> TRUE]
    ELSE [order |-> o, result |-> FALSE]

\* Order.should_restart / IcebergOrder.should_restart: the order after the
\* call (the iceberg refills its visible slice) and the value returned.
should_restart(o) ==
    IF o.cls = "IcebergOrder" /\ o.visible_volume = 0 /\ o.volume > 0
    THEN [order  |-> [o EXCEPT !.visible_volume = Min(o.volume, o.visible_quantity)],
          result |-> TRUE]
    ELSE [order |-> o, result |-> FALSE]

\* get_volume that shows the whole volume of an iceberg
get_volumeFull(o) == o.volume

\* Order.get_volume / IcebergOrder.get_volume
get_volume(o) ==
    IF o.cls = "IcebergOrder" THEN o.visible_volume ELSE o.volume

(***************************************************************************)
(* heapq over tuples <<key price, timestamp, id>>                          *)
(***************************************************************************)

\* Python's tuple comparison a < b
TupleLess(a, b) ==
    \/ a[1] < b[1]
    \/ a[1] = b[1] /\ a[2] < b[2]
    \/ a[1] = b[1] /\ a[2] = b[2] /\ a[3] < b[3]

\* heapq.heappush
heappush(heap, item) ==
    LET k == Cardinality({i \in 1..Len(heap) : TupleLess(heap[i], item)})
    IN  SubSeq(heap, 1, k) \o <<item>> \o SubSeq(heap, k + 1, Len(heap))

\* heapq.heappop, the heap that is left
heappop(heap) == Tail(heap)

\* BuyKey without the negation of the price
BuyKeyPlain(o, ts) == <<o.price, ts, o.id>>
\* BuyKey that keeps the order's own timestamp
BuyKeyStale(o, ts) == <<-o.price, o.timestamp, o.id>>
\* SellKey that keeps the order's own timestamp
SellKeyStale(o, ts) == <<o.price, o.timestamp, o.id>>

\* The tuple pushed for an order under a timestamp
BuyKey(o, ts) == <<-o.price, ts, o.id>>
SellKey(o, ts) == <<o.price, ts, o.id>>

(***************************************************************************)
(* CLOB                                                                    *)
(***************************************************************************)

\* CLOB.get_timestamp: a fresh sample of the clock after sample t
get_timestamp(t) == t + 1

\* LoopCond that does not look at the prices
LoopCondLoose(buys, sells) ==
    /\ buys # <<>>
    /\ sells # <<>>

\* LoopCond with a strict comparison of the prices
LoopCondStrict(buys, sells) ==
    /\ buys # <<>>
    /\ sells # <<>>
    /\ -buys[1][1] > sells[1][1]

\* The condition of the while loop of check_matches
LoopCond(buys, sells) ==
    /\ buys # <<>>
    /\ sells # <<>>
    /\ -buys[1][1] >= sells[1][1]

\* MatchKey that names the earlier order as aggressor
MatchKeyEarlier(buy_order, sell_order) ==
    IF buy_order.timestamp < sell_order.timestamp
    THEN <<buy_order.id, sell_order.id, sell_order.price>>
    ELSE <<sell_order.id, buy_order.id, buy_order.price>>

\* MatchKey that prices the trade at the aggressor's price
MatchKeyOwnPrice(buy_order, sell_order) ==
    IF buy_order.timestamp > sell_order.timestamp
    THEN <<buy_order.id, sell_order.id, buy_order.price>>
    ELSE <<sell_order.id, buy_order.id, sell_order.price>>

\* The key of a cross: <<aggressor id, passive id, passive price>>
MatchKey(buy_order, sell_order) ==
    IF buy_order.timestamp > sell_order.timestamp
    THEN <<buy_order.id, sell_order.id, sell_order.price>>
    ELSE <<sell_order.id, buy_order.id, buy_order.price>>

\* LogAdd that never merges
LogAddAlways(log, key, t, traded_amount) ==
    Append(log, [key |-> key, time |-> t, amount |-> traded_amount])

\* match_log[match_key][1] += traded_amount, or a new entry stamped t
LogAdd(log, key, t, traded_amount) ==
    IF \E i \in 1..Len(log) : log[i].key = key
    THEN [i \in 1..Len(log) |->
             IF log[i].key = key
             THEN [log[i] EXCEPT !.amount = log[i].amount + traded_amount]
             ELSE log[i]]
    ELSE Append(log, [key |-> key, time |-> t, amount |-> traded_amount])

\* SortLogs in descending order of time
RECURSIVE SortLogsDesc(_)
SortLogsDesc(log) ==
    IF log = <<>> THEN <<>>
    ELSE LET rest == SortLogsDesc(SubSeq(log, 1, Len(log) - 1))
             last == log[Len(log)]
             k == Cardinality({i \in 1..Len(rest) : rest[i].time >= last.time})
         IN  SubSeq(rest, 1, k) \o <<last>> \o SubSeq(rest, k + 1, Len(rest))

\* sorted_logs.sort(key=lambda x: x[1][0]): stable, ascending by time
RECURSIVE SortLogs(_)
SortLogs(log) ==
    IF log = <<>> THEN <<>>
    ELSE LET rest == SortLogs(SubSeq(log, 1, Len(log) - 1))
             last == log[Len(log)]
             k == Cardinality({i \in 1..Len(rest) : rest[i].time <= last.time})
         IN  SubSeq(rest, 1, k) \o <<last>> \o SubSeq(rest, k + 1, Len(rest))

\* The printed line "trade a, p, price, amount" of one log entry
TradeLine(entry) ==
    [aggressor |-> entry.key[1], passive |-> entry.key[2],
     price |-> entry.key[3], amount |-> entry.amount]

Init ==
    /\ orders_book = [B |-> <<>>, S |-> <<>>]
    /\ buy_orders = <<>>
    /\ sell_orders = <<>>
    /\ clock = 0
    /\ pc = "idle"
    /\ match_log = <<>>
    /\ printed = <<>>
    /\ submitted = <<>>
    /\ slices = <<>>
    /\ restarted = {}
    /\ last_cross = <<>>

\* The body of the for loop of start_trades up to the call of
\* check_matches: build the order, index it, push it on its heap.
SubmitOrder(type, price, volume, peak) ==
    /\ LET id == Len(submitted) + 1
           ts == get_timestamp(clock)
           order == IF peak > 0
                    THEN IcebergOrder(id, price, volume, type, ts, peak)
                    ELSE Order(id, price, volume, type, ts)
       IN  /\ orders_book' = [orders_book EXCEPT ![type] = (id :> order) @@ @]
           /\ IF type = "S"
              THEN /\ sell_orders' = heappush(sell_orders, SellKey(order, order.timestamp))
                   /\ UNCHANGED buy_orders
              ELSE /\ buy_orders' = heappush(buy_orders, BuyKey(order, order.timestamp))
                   /\ UNCHANGED sell_orders
           /\ clock' = ts
           /\ submitted' = Append(submitted,
                  [id |-> id, type |-> type, price |-> price,
                   volume |-> volume, peak |-> peak])
    /\ pc' = "matching"
    /\ match_log' = <<>>
    /\ slices' = <<>>
    /\ restarted' = {}
    /\ last_cross' = <<>>
    /\ UNCHANGED printed

\* The input read so far: its total volume and its number of icebergs
SubmittedVolume ==
    SumSeq([i \in 1..Len(submitted) |-> submitted[i].volume])
SubmittedIcebergs ==
    Cardinality({i \in 1..Len(submitted) : submitted[i].peak > 0})

\* The next input line: a regular order (peak = 0 stands for a line of four
\* fields) or an iceberg.
Submit ==
    /\ pc = "idle"
    /\ Len(submitted) < MaxOrders
    /\ \E volume \in 1..(MaxTotalVolume - SubmittedVolume),
          peak \in 0..(IF SubmittedIcebergs < MaxIcebergs THEN MaxPeak ELSE 0),
          type \in {"B", "S"}, price \in 1..MaxPrice :
           SubmitOrder(type, price, volume, peak)

\* One iteration of the while loop of check_matches.
MatchStep ==
    /\ pc = "matching"
    /\ LoopCond(buy_orders, sell_orders)
    /\ LET buy_order == orders_book["B"][buy_orders[1][3]]
           sell_order == orders_book["S"][sell_orders[1][3]]
           amount == get_volume(buy_order)
           st == trade(sell_order, amount, buy_order.timestamp)
           traded_amount == st.result
           match_key == MatchKey(buy_order, sell_order)
           isNew == \A i \in 1..Len(match_log) : match_log[i].key # match_key
           t1 == IF isNew THEN get_timestamp(clock) ELSE clock
           bt == trade(buy_order, traded_amount, sell_order.timestamp)
           \* sell side: pop when complete, push again on restart
           sellDone == is_complete(st.order)
           sr == IF sellDone THEN should_restart(st.order)
                 ELSE [order |-> st.order, result |-> FALSE]
           t2 == IF sr.result THEN get_timestamp(t1) ELSE t1
           sells1 == IF sellDone THEN heappop(sell_orders) ELSE sell_orders
           sells2 == IF sr.result
                     THEN heappush(sells1, SellKey(sr.order, t2))
                     ELSE sells1
           \* buy side
           buyDone == is_complete(bt.order)
           br == IF buyDone THEN should_restart(bt.order)
                 ELSE [order |-> bt.order, result |-> FALSE]
           t3 == IF br.result THEN get_timestamp(t2) ELSE t2
           buys1 == IF buyDone THEN heappop(buy_orders) ELSE buy_orders
           buys2 == IF br.result
                    THEN heappush(buys1, BuyKey(br.order, t3))
                    ELSE buys1
       IN  /\ match_log' = LogAdd(match_log, match_key, t1, traded_amount)
           /\ slices' = Append(slices,
                  [key |-> match_key, amount |-> traded_amount,
                   buy |-> buy_order.id, sell |-> sell_order.id,
                   bought |-> bt.result])
           /\ orders_book' = [orders_book EXCEPT
                  !["S"][sell_order.id] = sr.order,
                  !["B"][buy_order.id] = br.order]
           /\ sell_orders' = sells2
           /\ buy_orders' = buys2
           /\ clock' = t3
           /\ restarted' = (IF sr.result THEN {sell_order.id} ELSE {})
                              \cup (IF br.result THEN {buy_order.id} ELSE {})
           /\ last_cross' = <<[requested |-> amount,
                                traded |-> traded_amount,
                                bought |-> bt.result,
                                sell0 |-> sell_order, sell1 |-> st.order,
                                sell2 |-> sr.order,
                                sell_complete |-> sellDone,
                                sell_restart |-> sr.result,
                                buy0 |-> buy_order, buy1 |-> bt.order,
                                buy2 |-> br.order,
                                buy_complete |-> buyDone,
                                buy_restart |-> br.result]>>
    /\ UNCHANGED <<pc, printed, submitted>>

\* The end of check_matches: the loop condition is false, the log is sorted
\* by first-seen time and printed.
Finish ==
    /\ pc = "matching"
    /\ ~LoopCond(buy_orders, sell_orders)
    /\ LET sorted_logs == SortLogs(match_log)
       IN  printed' = Append(printed,
               [i \in 1..Len(sorted_logs) |-> TradeLine(sorted_logs[i])])
    /\ pc' = "idle"
    /\ UNCHANGED <<orders_book, buy_orders, sell_orders, clock, match_log,
                   submitted, slices, restarted, last_cross>>

Next == Submit \/ MatchStep \/ Finish

Spec == Init /\ [][Next]_vars

\* An input line that carries a regular order of volume 0.
SubmitZero ==
    /\ pc = "idle"
    /\ Len(submitted) < MaxOrders
    /\ \E type \in {"B", "S"}, price \in 1..MaxPrice :
           SubmitOrder(type, price, 0, 0)

NextZero == Submit \/ SubmitZero \/ MatchStep \/ Finish

\* The runs whose input may carry regular orders of volume 0.
SpecZero == Init /\ [][NextZero]_vars

\* check_matches is sequential code: an iteration that can run does run,
\* and so does the end of the pass.
LiveSpec == Spec /\ WF_vars(MatchStep) /\ WF_vars(Finish)


(***************************************************************************)
(* Properties                                                              *)
(***************************************************************************)

\* The ids that have an entry in a heap
BookIds(heap) == {heap[i][3] : i \in 1..Len(heap)}

\* The order record of an id, whichever side it is on
OrderOf(id) ==
    IF id \in DOMAIN orders_book["B"]
    THEN orders_book["B"][id] ELSE orders_book["S"][id]

AllIds == DOMAIN orders_book["B"] \cup DOMAIN orders_book["S"]

\* All printed trade lines, in order
RECURSIVE Flatten(_)
Flatten(batches) ==
    IF batches = <<>> THEN <<>> ELSE Head(batches) \o Flatten(Tail(batches))

\* The total amount of the printed trades that name the id
TradedOf(id) ==
    LET lines == Flatten(printed)
    IN  SumSeq([i \in 1..Len(lines) |->
                   IF id \in {lines[i].aggressor, lines[i].passive}
                   THEN lines[i].amount ELSE 0])

LastBatch == printed[Len(printed)]

\* The order read last
Incoming == Len(submitted)

\* C1: after submit has returned, one side book is empty or the price of the
\* order at the root of the buy heap is strictly less than the price of the
\* order at the root of the sell heap.
NoCrossOnQuiescence ==
    pc = "idle" =>
        \/ buy_orders = <<>>
        \/ sell_orders = <<>>
        \/ orders_book["B"][buy_orders[1][3]].price
             < orders_book["S"][sell_orders[1][3]].price

\* A submit has returned after a pass that traded, and both sides rest.
NoCrossWitness ==
    /\ pc = "idle"
    /\ printed # <<>>
    /\ LastBatch # <<>>
    /\ buy_orders # <<>>
    /\ sell_orders # <<>>

\* C2: after submit has returned, for every order the initial volume equals
\* the residual volume plus the sum of the amounts of the printed trades
\* that name the order as aggressor or passive.
ConservationOfVolume ==
    pc = "idle" =>
        \A id \in AllIds :
            submitted[id].volume = OrderOf(id).volume + TradedOf(id)

\* C3: after submit has returned, every order with an entry in a side book
\* has volume > 0 and, if it is an iceberg, visible_volume > 0.
NoNegativeResidual ==
    pc = "idle" =>
        \A id \in BookIds(buy_orders) \cup BookIds(sell_orders) :
            /\ OrderOf(id).volume > 0
            /\ OrderOf(id).cls = "IcebergOrder" => OrderOf(id).visible_volume > 0

\* C4: in every state every iceberg has visible_volume <= volume and
\* visible_volume <= visible_quantity.
IcebergVisibleBound ==
    \A id \in AllIds :
        OrderOf(id).cls = "IcebergOrder" =>
            /\ OrderOf(id).visible_volume <= OrderOf(id).volume
            /\ OrderOf(id).visible_volume <= OrderOf(id).visible_quantity

\* C5: every cross of a pass, every entry of the match log and every printed
\* trade names as aggressor the order of the pair with the later timestamp,
\* as passive the other one, and carries the passive order's price.
RightlyKeyed(aggressor, passive, price) ==
    /\ aggressor \in AllIds
    /\ passive \in AllIds
    /\ OrderOf(aggressor).type # OrderOf(passive).type
    /\ OrderOf(aggressor).timestamp > OrderOf(passive).timestamp
    /\ price = OrderOf(passive).price

AggressorAndPrice ==
    /\ \A i \in 1..Len(slices) :
           /\ {slices[i].key[1], slices[i].key[2]} = {slices[i].buy, slices[i].sell}
           /\ RightlyKeyed(slices[i].key[1], slices[i].key[2], slices[i].key[3])
    /\ \A i \in 1..Len(match_log) :
           RightlyKeyed(match_log[i].key[1], match_log[i].key[2], match_log[i].key[3])
    /\ \A b \in 1..Len(printed) : \A i \in 1..Len(printed[b]) :
           RightlyKeyed(printed[b][i].aggressor, printed[b][i].passive,
                        printed[b][i].price)

\* A trade was printed for an incoming order that crossed at a better price
\* than the resting order's.
AggressorAndPriceWitness ==
    \E b \in 1..Len(printed) : \E i \in 1..Len(printed[b]) :
        /\ OrderOf(printed[b][i].aggressor).price # OrderOf(printed[b][i].passive).price
        /\ printed[b][i].price = OrderOf(printed[b][i].passive).price

\* C6: no two trades of one printed batch share <<aggressor, passive, price>>,
\* and the batch of the pass that just ended has one trade per key crossed in
\* the pass, whose amount is the sum of the amounts of the crosses of that key.
SliceSum(key) ==
    SumSeq([i \in 1..Len(slices) |->
               IF slices[i].key = key THEN slices[i].amount ELSE 0])

LineKey(line) == <<line.aggressor, line.passive, line.price>>

TradeAggregation ==
    /\ \A b \in 1..Len(printed) : \A i, j \in 1..Len(printed[b]) :
           i # j => LineKey(printed[b][i]) # LineKey(printed[b][j])
    /\ (pc = "idle" /\ printed # <<>>) =>
           /\ \A i \in 1..Len(LastBatch) :
                  LastBatch[i].amount = SliceSum(LineKey(LastBatch[i]))
           /\ \A i \in 1..Len(slices) : \E j \in 1..Len(LastBatch) :
                  LineKey(LastBatch[j]) = slices[i].key

\* A batch was printed after a pass in which a passive iceberg was crossed
\* twice by the same aggressor.
TradeAggregationWitness ==
    /\ pc = "idle"
    /\ \E i, j \in 1..Len(slices) :
           /\ i < j
           /\ slices[i].key = slices[j].key
           /\ OrderOf(slices[i].key[2]).cls = "IcebergOrder"
           /\ slices[i].amount > 0
           /\ slices[j].amount > 0

\* C7: an iceberg never rests with an exhausted visible slice, and an order
\* pushed again by a restart is an iceberg with volume left, in the heap of
\* its own side, under a timestamp later than that of every other entry of
\* the heap, and so behind every other entry of the same price.
Behind(heap, id) ==
    \A i, j \in 1..Len(heap) :
        (heap[j][3] = id /\ heap[i][3] # id) =>
            /\ heap[i][2] < heap[j][2]
            /\ heap[i][1] = heap[j][1] => i < j

RestartLosesPriority ==
    /\ \A id \in BookIds(buy_orders) \cup BookIds(sell_orders) :
           OrderOf(id).cls = "IcebergOrder" => OrderOf(id).visible_volume # 0
    /\ \A id \in restarted :
        /\ OrderOf(id).cls = "IcebergOrder"
        /\ OrderOf(id).volume > 0
        /\ OrderOf(id).type = "B" =>
               /\ id \in BookIds(buy_orders)
               /\ id \notin BookIds(sell_orders)
               /\ Behind(buy_orders, id)
        /\ OrderOf(id).type = "S" =>
               /\ id \in BookIds(sell_orders)
               /\ id \notin BookIds(buy_orders)
               /\ Behind(sell_orders, id)

\* An iceberg has just restarted while another order rests at its price on
\* its side.
RestartWitness ==
    \E id \in restarted :
        LET heap == IF OrderOf(id).type = "B" THEN buy_orders ELSE sell_orders
        IN  \E i, j \in 1..Len(heap) :
                /\ i < j
                /\ heap[j][3] = id
                /\ heap[i][1] = heap[j][1]

\* C8: as long as no submission has crossed, the root of the buy heap is an
\* order of maximum price among the buys and of minimum timestamp among the
\* buys of that price; the root of the sell heap is an order of minimum
\* price among the sells and of minimum timestamp among the sells of that
\* price.
NoCrossSoFar ==
    /\ slices = <<>>
    /\ \A b \in 1..Len(printed) : printed[b] = <<>>

PriceTimePriority ==
    NoCrossSoFar =>
        /\ BookIds(buy_orders) = DOMAIN orders_book["B"]
        /\ BookIds(sell_orders) = DOMAIN orders_book["S"]
        /\ buy_orders # <<>> =>
               LET root == orders_book["B"][buy_orders[1][3]]
               IN  \A id \in DOMAIN orders_book["B"] :
                       LET o == orders_book["B"][id]
                       IN  /\ o.price <= root.price
                           /\ o.price = root.price => root.timestamp <= o.timestamp
        /\ sell_orders # <<>> =>
               LET root == orders_book["S"][sell_orders[1][3]]
               IN  \A id \in DOMAIN orders_book["S"] :
                       LET o == orders_book["S"][id]
                       IN  /\ o.price >= root.price
                           /\ o.price = root.price => root.timestamp <= o.timestamp

\* Nothing has crossed, three buys rest, and the root is neither the first
\* nor the last of them to arrive.
PriceTimePriorityWitness ==
    /\ NoCrossSoFar
    /\ pc = "idle"
    /\ Len(buy_orders) = 3
    /\ buy_orders[1][3] = 2
    /\ orders_book["B"][3].price = orders_book["B"][2].price

\* C9: after submit has returned, the ids of the id index are exactly the
\* ids that have an entry in the buy heap or in the sell heap.
IdIndexConsistency ==
    pc = "idle" =>
        /\ DOMAIN orders_book["B"] = BookIds(buy_orders)
        /\ DOMAIN orders_book["S"] = BookIds(sell_orders)

\* C10: the batch printed for an incoming order has exactly one trade per
\* counter-order it crossed, at that counter-order's price, in the order in
\* which the counter-orders were first crossed.
CounterOf(slice) == IF slice.buy = Incoming THEN slice.sell ELSE slice.buy

RECURSIVE FirstCrossed(_)
FirstCrossed(ss) ==
    IF ss = <<>> THEN <<>>
    ELSE LET init == FirstCrossed(SubSeq(ss, 1, Len(ss) - 1))
             c == CounterOf(ss[Len(ss)])
         IN  IF \E i \in 1..Len(init) : init[i] = c THEN init ELSE Append(init, c)

SweepEmissionOrder ==
    (pc = "idle" /\ printed # <<>>) =>
        LET crossed == FirstCrossed(slices)
        IN  /\ Len(LastBatch) = Len(crossed)
            /\ \A i \in 1..Len(LastBatch) :
                   /\ LastBatch[i].passive = crossed[i]
                   /\ LastBatch[i].aggressor = Incoming
                   /\ LastBatch[i].price = OrderOf(crossed[i]).price

\* An incoming order swept two resting orders at different prices.
SweepWitness ==
    /\ pc = "idle"
    /\ printed # <<>>
    /\ Len(LastBatch) = 2
    /\ LastBatch[1].price # LastBatch[2].price

\* The total residual volume of the pair of the last cross falls strictly.
IterationReducesVolume ==
    last_cross # <<>> =>
        last_cross[1].sell2.volume + last_cross[1].buy2.volume
            < last_cross[1].sell0.volume + last_cross[1].buy0.volume

\* Every matching pass ends.
PassEnds == (pc = "matching") ~> (pc = "idle")

\* C11: every matching pass ends, submit returns, and each iteration of the
\* loop strictly reduces the total residual volume of the crossing pair.
SubmitTerminates == PassEnds /\ []IterationReducesVolume

\* C12: after the submit of a regular order of volume 0 has returned, no
\* trade was printed for it, no cross of its pass took volume from an
\* order, and no order of volume 0 rests in a side book.
ZeroVolumeNoOp ==
    (pc = "idle" /\ submitted # <<>> /\ submitted[Incoming].volume = 0) =>
        /\ LastBatch = <<>>
        /\ \A i \in 1..Len(slices) :
               slices[i].amount = 0 /\ slices[i].bought = 0
        /\ \A id \in BookIds(buy_orders) \cup BookIds(sell_orders) :
               OrderOf(id).volume # 0

\* The heap entries of both sides
Entries ==
    {buy_orders[i] : i \in 1..Len(buy_orders)}
        \cup {sell_orders[i] : i \in 1..Len(sell_orders)}

\* C13 as stated: for every live side-book entry the timestamp of the
\* priority key equals the timestamp stored on the order it refers to.
KeyTimestampIsOrderTimestamp ==
    \A e \in Entries : e[2] = OrderOf(e[3]).timestamp

\* C13 as amended: a restart stamps only the priority key.  The key of a
\* live entry is never earlier than the timestamp of its order, it is later
\* for an order that has just restarted, and the order records keep the
\* timestamps of their submission, which increase with the input line.
RestartKeepsOrderTimestamp ==
    /\ \A e \in Entries : e[2] >= OrderOf(e[3]).timestamp
    /\ \A id \in restarted : \E e \in Entries :
           e[3] = id /\ e[2] > OrderOf(id).timestamp
    /\ \A i, j \in AllIds :
           i < j => OrderOf(i).timestamp < OrderOf(j).timestamp

\* After a submit has returned, an iceberg rests under a key later than its
\* own timestamp, which is earlier than that of the order that crossed it.
RestartKeepsWitness ==
    /\ pc = "idle"
    /\ \E e \in Entries :
           /\ e[2] > OrderOf(e[3]).timestamp
           /\ e[3] # Incoming
           /\ OrderOf(e[3]).timestamp < OrderOf(Incoming).timestamp
           /\ e[2] > OrderOf(Incoming).timestamp

\* C14: in every iteration of the loop the amount that buy.trade takes from
\* the buy order equals the amount returned by sell.trade, so both orders
\* of the cross lose the same volume.
ReciprocalUpdate ==
    last_cross # <<>> =>
        /\ last_cross[1].bought = last_cross[1].traded
        /\ last_cross[1].buy0.volume - last_cross[1].buy1.volume
             = last_cross[1].sell0.volume - last_cross[1].sell1.volume

\* The rule of C15 for one call o0.trade(requested, counter_ts) that left the
\* order as o1 and returned result.
FollowsIcebergRule(o0, o1, requested, counter_ts, result) ==
    LET a == IF o0.timestamp > counter_ts
             THEN Min(o0.volume, requested)
             ELSE Min(o0.visible_volume, requested)
    IN  /\ result = a
        /\ o1.volume = o0.volume - a
        /\ o1.visible_volume =
               IF o0.timestamp > counter_ts
               THEN Min(o0.visible_volume, o0.volume - a)
               ELSE Min(o0.visible_volume - a, o0.volume - a)
        /\ o1 = [o0 EXCEPT !.volume = o1.volume,
                           !.visible_volume = o1.visible_volume]

ReturnsWithinRequest(requested, result) ==
    0 <= result /\ result <= requested

\* The calls of trade on icebergs in the last iteration follow the rule.
IcebergTradeFormula ==
    last_cross # <<>> =>
        LET c == last_cross[1]
        IN  /\ c.sell0.cls = "IcebergOrder" =>
                   FollowsIcebergRule(c.sell0, c.sell1, c.requested,
                                      c.buy0.timestamp, c.traded)
            /\ c.buy0.cls = "IcebergOrder" =>
                   FollowsIcebergRule(c.buy0, c.buy1, c.traded,
                                      c.sell0.timestamp, c.bought)

\* C15: every call of trade on an iceberg consumes, as aggressive, a =
\* min(volume, requested) from volume only and leaves visible at
\* min(visible, volume - a), and as passive a = min(visible, requested) from
\* both visible and volume with visible clamped to volume; it returns a,
\* and 0 <= a <= requested.
IcebergTradeRule ==
    /\ IcebergTradeFormula
    /\ last_cross # <<>> =>
           LET c == last_cross[1]
           IN  /\ c.sell0.cls = "IcebergOrder" =>
                      ReturnsWithinRequest(c.requested, c.traded)
               /\ c.buy0.cls = "IcebergOrder" =>
                      ReturnsWithinRequest(c.traded, c.bought)

\* The lifecycle of C16 for the iceberg o1 left by a trade of the loop, with
\* what the loop saw of it: is_complete(), should_restart(), the order o2
\* after these calls.
FollowsLifecycle(o1, complete, restart, o2) ==
    /\ complete = (o1.visible_volume = 0)
    /\ restart = (o1.visible_volume = 0 /\ o1.volume > 0)
    /\ restart =>
           o2 = [o1 EXCEPT !.visible_volume = Min(o1.volume, o1.visible_quantity)]
    /\ ~restart => o2 = o1
    /\ restart => o2.id \in restarted
    /\ (complete /\ ~restart) =>
           /\ o2.volume <= 0
           /\ o2.id \notin BookIds(buy_orders) \cup BookIds(sell_orders)
    /\ o1.volume = 0 => (complete /\ ~restart)

\* C16: should_restart() is true exactly when visible = 0 and volume > 0 and
\* then refills visible to min(volume, peak); an iceberg with an exhausted
\* slice is complete and restarts while volume remains; a fully filled
\* iceberg is complete, does not restart and is not queued again.
IcebergSliceLifecycle ==
    /\ \A id \in AllIds :
           LET o == OrderOf(id)
               r == should_restart(o)
           IN  o.cls = "IcebergOrder" =>
                   /\ r.result = (o.visible_volume = 0 /\ o.volume > 0)
                   /\ is_complete(o) = (o.visible_volume = 0)
                   /\ r.order = [o EXCEPT !.visible_volume =
                                     IF r.result
                                     THEN Min(o.volume, o.visible_quantity)
                                     ELSE o.visible_volume]
                   /\ o.volume = 0 =>
                          id \notin BookIds(buy_orders) \cup BookIds(sell_orders)
    /\ last_cross # <<>> =>
           LET c == last_cross[1]
           IN  /\ c.sell0.cls = "IcebergOrder" =>
                      FollowsLifecycle(c.sell1, c.sell_complete, c.sell_restart, c.sell2)
               /\ c.buy0.cls = "IcebergOrder" =>
                      FollowsLifecycle(c.buy1, c.buy_complete, c.buy_restart, c.buy2)

\* A passive iceberg restarted in a pass and was then filled entirely: it
\* is complete, did not restart and is in no book.
SliceLifecycleWitness ==
    /\ last_cross # <<>>
    /\ Len(slices) >= 2
    /\ LET c == last_cross[1]
       IN  /\ c.buy0.cls = "IcebergOrder"
           /\ c.buy0.timestamp < c.sell0.timestamp
           /\ slices[Len(slices) - 1].buy = c.buy0.id
           /\ c.buy_complete
           /\ ~c.buy_restart
           /\ c.buy2.volume = 0
           /\ c.buy0.id \notin BookIds(buy_orders)

\* The accounting of C17 for one call o0.trade(requested) on a regular order
\* that left it as o1 and returned result, with what the loop then saw of
\* it: is_complete(), should_restart(), the order o2 after these calls.
FollowsRegularRule(o0, o1, requested, result, complete, restart, o2) ==
    /\ result = Min(o0.volume, requested)
    /\ o1 = [o0 EXCEPT !.volume = o0.volume - Min(o0.volume, requested)]
    /\ complete = (o1.volume = 0)
    /\ ~restart
    /\ o2 = o1
    /\ o0.id \notin restarted
    /\ complete => o0.id \notin BookIds(buy_orders) \cup BookIds(sell_orders)
    /\ ~complete => o0.id \in BookIds(buy_orders) \cup BookIds(sell_orders)

\* C17: trade(requested) on a regular order takes min(volume, requested)
\* from volume and returns it; is_complete() holds iff volume = 0;
\* should_restart() is false and leaves the order alone, so a regular order
\* that was popped is not queued again.
RegularOrderAccounting ==
    /\ \A id \in AllIds :
           LET o == OrderOf(id)
           IN  o.cls = "Order" =>
                   /\ is_complete(o) = (o.volume = 0)
                   /\ should_restart(o) = [order |-> o, result |-> FALSE]
                   /\ o.volume = 0 =>
                          id \notin BookIds(buy_orders) \cup BookIds(sell_orders)
    /\ last_cross # <<>> =>
           LET c == last_cross[1]
           IN  /\ c.sell0.cls = "Order" =>
                      FollowsRegularRule(c.sell0, c.sell1, c.requested, c.traded,
                                         c.sell_complete, c.sell_restart, c.sell2)
               /\ c.buy0.cls = "Order" =>
                      FollowsRegularRule(c.buy0, c.buy1, c.traded, c.bought,
                                         c.buy_complete, c.buy_restart, c.buy2)

\* A regular sell order was asked for more than it had, gave its whole
\* volume, is complete and has left the sell heap.
RegularAccountingWitness ==
    /\ last_cross # <<>>
    /\ LET c == last_cross[1]
       IN  /\ c.sell0.cls = "Order"
           /\ c.requested > c.sell0.volume
           /\ c.traded = c.sell0.volume
           /\ c.sell_complete
           /\ c.sell0.id \notin BookIds(sell_orders)

\* The last iteration was the first cross of a freshly submitted iceberg buy.
FirstCrossOfIcebergBuy ==
    /\ last_cross # <<>>
    /\ Len(slices) = 1
    /\ last_cross[1].buy0.id = Incoming
    /\ last_cross[1].buy0.cls = "IcebergOrder"

\* C18 as stated: the amount requested by the first cross of a freshly
\* submitted iceberg buy is the full residual volume of the iceberg.
FreshIcebergBuyRequestsVolume ==
    FirstCrossOfIcebergBuy =>
        last_cross[1].requested = last_cross[1].buy0.volume

\* C18 as amended: the amount requested by the first cross of a freshly
\* submitted iceberg buy is its peak, its volume being still the submitted
\* one.
FreshIcebergBuyRequestsPeak ==
    FirstCrossOfIcebergBuy =>
        /\ last_cross[1].buy0.volume = submitted[Incoming].volume
        /\ last_cross[1].requested = submitted[Incoming].peak
        /\ last_cross[1].requested = last_cross[1].buy0.visible_quantity

\* A freshly submitted iceberg buy with a peak below its volume has crossed.
FreshIcebergBuyWitness ==
    /\ FirstCrossOfIcebergBuy
    /\ submitted[Incoming].peak < submitted[Incoming].volume
    /\ last_cross[1].requested < last_cross[1].buy0.volume

\* C19: in every iteration of the pass run by a submit one of the two
\* orders at the roots is the order just submitted, and every entry of the
\* match log and every trade printed by that submit names it as aggressor.
EveryCrossInvolvesIncoming ==
    /\ \A i \in 1..Len(slices) :
           /\ Incoming \in {slices[i].buy, slices[i].sell}
           /\ slices[i].key[1] = Incoming
           /\ slices[i].key[2] = CounterOf(slices[i])
    /\ last_cross # <<>> =>
           Incoming \in {last_cross[1].buy0.id, last_cross[1].sell0.id}
    /\ \A i \in 1..Len(match_log) : match_log[i].key[1] = Incoming
    /\ \A b \in 1..Len(printed) : \A i \in 1..Len(printed[b]) :
           /\ printed[b][i].aggressor = b
           /\ printed[b][i].passive < b

\* A trade was printed that names the incoming order as aggressor and as
\* passive an iceberg that restarted after the incoming order arrived.
IncomingAggressorWitness ==
    /\ pc = "idle"
    /\ printed # <<>>
    /\ \E i \in 1..Len(LastBatch) : \E e \in Entries :
           /\ LastBatch[i].aggressor = Incoming
           /\ e[3] = LastBatch[i].passive
           /\ OrderOf(e[3]).cls = "IcebergOrder"
           /\ e[2] > OrderOf(Incoming).timestamp
           /\ LastBatch[i].amount >= 2

\* The best buy of the books does not reach the best sell, or a side is
\* empty.
NoCrossIn(book, buys, sells) ==
    \/ buys = <<>>
    \/ sells = <<>>
    \/ book["B"][buys[1][3]].price < book["S"][sells[1][3]].price

\* The heap without the entries of an id
WithoutId(heap, id) == SelectSeq(heap, LAMBDA e : e[3] # id)

\* The step that reads an input line whose order does not cross: the new
\* order rests with its full volume, and the records and the relative book
\* positions of the orders read before are unchanged.
InsertsOnly ==
    (pc = "idle" /\ pc' = "matching"
       /\ NoCrossIn(orders_book', buy_orders', sell_orders')) =>
        LET id == Len(submitted')
            line == submitted'[id]
        IN  /\ \A t \in {"B", "S"} : \A i \in DOMAIN orders_book[t] :
                   /\ i \in DOMAIN orders_book'[t]
                   /\ orders_book'[t][i] = orders_book[t][i]
            /\ id \in DOMAIN orders_book'[line.type]
            /\ orders_book'[line.type][id].volume = line.volume
            /\ orders_book'[line.type][id].price = line.price
            /\ IF line.type = "B"
               THEN /\ id \in BookIds(buy_orders')
                    /\ WithoutId(buy_orders', id) = buy_orders
                    /\ sell_orders' = sell_orders
               ELSE /\ id \in BookIds(sell_orders')
                    /\ WithoutId(sell_orders', id) = sell_orders
                    /\ buy_orders' = buy_orders

\* The pass of such a submit makes no iteration: it prints an empty batch
\* and returns, leaving the books and the order records alone.
ReturnsWithoutTrade ==
    (pc = "matching" /\ slices = <<>>
       /\ NoCrossIn(orders_book, buy_orders, sell_orders)) =>
        /\ pc' = "idle"
        /\ printed' = Append(printed, <<>>)
        /\ UNCHANGED <<orders_book, buy_orders, sell_orders, submitted>>

\* C20: a submission that does not cross the opposite best price emits no
\* trade, leaves the new order resting with its full volume, and changes
\* neither the record nor the book position of any order that rested.
NonCrossingIsPureInsertion == [][InsertsOnly /\ ReturnsWithoutTrade]_vars

\* A third order came to rest on its side next to an order that rested
\* there, facing a non-empty opposite side, and no trade was printed for it.
PureInsertionWitness ==
    /\ pc = "idle"
    /\ Len(submitted) = 3
    /\ slices = <<>>
    /\ LastBatch = <<>>
    /\ buy_orders # <<>>
    /\ sell_orders # <<>>
    /\ \/ Len(buy_orders) = 2 /\ 3 \in BookIds(buy_orders)
       \/ Len(sell_orders) = 2 /\ 3 \in BookIds(sell_orders)
    /\ \A id \in AllIds : OrderOf(id).volume = submitted[id].volume

====
